---------------------------- MODULE Spec2Model ----------------------------
(***************************************************************************)
(* Education dashboard (app.py, heatmap.py): the table loaded from the CSV *)
(* file, the sidebar selections, and the filter / aggregate computations   *)
(* each script performs from top to bottom on every rerun.                 *)
(*                                                                         *)
(* Numbers are exact rationals <<n, d>> in lowest terms with d > 0; a      *)
(* missing value (NaN) is <<0, 0>>.                                        *)
(***************************************************************************)
EXTENDS Integers, Sequences, FiniteSets, TLC

VARIABLES csv, cache, data, countries, years, metric, filtered_data,
          heatmap_data, bubble_data, grouped, country_composite_scores,
          top_10_countries, error_shown, pc, err, column, summary

vars == <<csv, cache, data, countries, years, metric, filtered_data,
          heatmap_data, bubble_data, grouped, country_composite_scores,
          top_10_countries, error_shown, pc, err, column, summary>>

(***************************************************************************)
(* Bounds of the model                                                     *)
(***************************************************************************)
\* rows in the CSV file
MaxRows == 2
\* rows of the frame handed to calculate_delta
MaxLen == 3
\* groups handed to sort_values / head
MaxGroups == 11

(***************************************************************************)
(* Rational arithmetic with NaN                                            *)
(***************************************************************************)
NaN == <<0, 0>>

IsNaN(x) == x[2] = 0

Abs(n) == IF n < 0 THEN -n ELSE n

RECURSIVE Gcd(_, _)
Gcd(a, b) == IF b = 0 THEN a ELSE Gcd(b, a % b)

\* n/d in lowest terms, d > 0
Norm(n, d) ==
    LET g == Gcd(Abs(n), d)
    IN  <<n \div g, d \div g>>

Num(k) == <<k, 1>>

RSub(a, b) ==
    IF IsNaN(a) \/ IsNaN(b) THEN NaN
    ELSE Norm(a[1] * b[2] - b[1] * a[2], a[2] * b[2])

RAdd(a, b) ==
    IF IsNaN(a) \/ IsNaN(b) THEN NaN
    ELSE Norm(a[1] * b[2] + b[1] * a[2], a[2] * b[2])

RMul(a, b) ==
    IF IsNaN(a) \/ IsNaN(b) THEN NaN
    ELSE Norm(a[1] * b[1], a[2] * b[2])

\* float division: x / 0 is not finite (inf or nan), no exception
RDiv(a, b) ==
    IF IsNaN(a) \/ IsNaN(b) \/ b[1] = 0 THEN NaN
    ELSE IF b[1] < 0 THEN Norm(-(a[1] * b[2]), a[2] * (-b[1]))
    ELSE Norm(a[1] * b[2], a[2] * b[1])

RLess(a, b) == a[1] * b[2] < b[1] * a[2]

RECURSIVE SumSeq(_)
SumSeq(s) == IF s = <<>> THEN Num(0) ELSE RAdd(Head(s), SumSeq(Tail(s)))

NotNaN(x) == ~IsNaN(x)

\* Series.mean() / DataFrame.mean(axis=1): skipna=True, NaN when nothing is left
Mean(s) ==
    LET t == SelectSeq(s, NotNaN)
    IN  IF t = <<>> THEN NaN ELSE RDiv(SumSeq(t), Num(Len(t)))

(***************************************************************************)
(* The CSV file                                                            *)
(***************************************************************************)
indicators ==
    <<"pri_comp_rate_pct", "school_enrol_primary_pct",
      "school_enrol_secondary_pct", "school_enrol_tertiary_pct">>

MetricOptions ==
    <<"gov_exp_pct_gdp", "school_enrol_primary_pct", "school_enrol_secondary_pct",
      "school_enrol_tertiary_pct", "pupil_teacher_primary", "pupil_teacher_secondary">>

MapMetricOptions ==
    <<"gov_exp_pct_gdp", "school_enrol_primary_pct",
      "school_enrol_secondary_pct", "school_enrol_tertiary_pct">>

Range(s) == {s[i] : i \in DOMAIN s}

NumericCols ==
    Range(MetricOptions) \cup Range(indicators) \cup {"latitude", "longitude"}

\* Country names of the file, in Python's string order ("Peru" < "peru")
CountryOrder == <<"Peru", "peru">>

Countries == Range(CountryOrder)

Years == 2010 .. 2011

\* Two value rows: A has a missing secondary enrolment and no latitude,
\* B is complete.
ProfileA ==
    ("gov_exp_pct_gdp" :> Num(0)) @@ ("school_enrol_primary_pct" :> Num(8)) @@
    ("school_enrol_secondary_pct" :> NaN) @@ ("school_enrol_tertiary_pct" :> Num(0)) @@
    ("pupil_teacher_primary" :> Num(3)) @@ ("pupil_teacher_secondary" :> NaN) @@
    ("pri_comp_rate_pct" :> Num(4)) @@ ("latitude" :> NaN) @@ ("longitude" :> Num(7))

ProfileB ==
    ("gov_exp_pct_gdp" :> Num(3)) @@ ("school_enrol_primary_pct" :> Num(2)) @@
    ("school_enrol_secondary_pct" :> Num(2)) @@ ("school_enrol_tertiary_pct" :> Num(2)) @@
    ("pupil_teacher_primary" :> Num(5)) @@ ("pupil_teacher_secondary" :> Num(1)) @@
    ("pri_comp_rate_pct" :> Num(2)) @@ ("latitude" :> Num(9)) @@ ("longitude" :> Num(7))

Profiles == {ProfileA, ProfileB}

\* The column sets a file may have: all columns, or one indicator missing
Schemas ==
    {{"country", "year"} \cup NumericCols} \cup
    {({"country", "year"} \cup NumericCols) \ {c} : c \in Range(indicators)}

CsvRows(cols) ==
    {[country |-> c, year |-> y, cells |-> [k \in cols \cap NumericCols |-> p[k]]] :
        c \in Countries, y \in Years, p \in Profiles}

CsvFiles ==
    UNION {{[cols |-> cols, rows |-> r] :
                r \in UNION {[1 .. n -> CsvRows(cols)] : n \in 0 .. MaxRows}} :
           cols \in Schemas}

(***************************************************************************)
(* Names of the script that are not bound yet                              *)
(***************************************************************************)
NoFrame == [cols |-> {}, rows |-> <<>>]

Undefined == [bound |-> FALSE, df |-> NoFrame]

Bound(df) == [bound |-> TRUE, df |-> df]

NoError == [type |-> "none", key |-> ""]

KeyError(k) == [type |-> "KeyError", key |-> k]

NoSummary == [delta |-> Num(0), delta_percent |-> Num(0), reads |-> {},
              divisors |-> {}, raised |-> "none"]

(***************************************************************************)
(* load_data                                                               *)
(***************************************************************************)
\* pd.to_datetime(year, format='%Y'): the first day of that year
ToDatetime(y) == [year |-> y, month |-> 1, day |-> 1]

\* Series.dt.year
DtYear(ts) == ts.year

\* read_csv, then the year column parsed; rows carry the RangeIndex label
ReadAndParse(file) ==
    [cols |-> file.cols,
     rows |-> [i \in DOMAIN file.rows |->
                 [idx |-> i - 1,
                  country |-> file.rows[i].country,
                  year |-> ToDatetime(file.rows[i].year),
                  cells |-> file.rows[i].cells]]]

\* @st.cache_data: computed on the first call, the stored table afterwards
load_data(memo, file) == IF memo.bound THEN memo.df ELSE ReadAndParse(file)

(***************************************************************************)
(* Filtering                                                               *)
(***************************************************************************)
\* Variant: an empty selection selects every country
IsIn_EmptyMeansAll(v, values) == values = {} \/ v \in values

\* Series.isin(values)
IsIn(v, values) == v \in values

\* Variant: the right end excluded
Between_RightOpen(v, left, right) == left <= v /\ v < right

\* Series.between(left, right), inclusive="both"
Between(v, left, right) == left <= v /\ v <= right

\* df[mask]: a new frame with the rows whose mask entry is True, in order,
\* keeping their index labels
RECURSIVE Take(_, _)
Take(rows, mask) ==
    IF rows = <<>> THEN <<>>
    ELSE IF Head(mask) THEN <<Head(rows)>> \o Take(Tail(rows), Tail(mask))
    ELSE Take(Tail(rows), Tail(mask))

BooleanIndex(df, mask) == [cols |-> df.cols, rows |-> Take(df.rows, mask)]

\* data[(data['country'].isin(countries)) & (data['year'].dt.year.between(lo, hi))]
Filter(df, sel, yr) ==
    LET m1 == [i \in DOMAIN df.rows |-> IsIn(df.rows[i].country, sel)]
        m2 == [i \in DOMAIN df.rows |->
                 Between(DtYear(df.rows[i].year), yr[1], yr[2])]
    IN  BooleanIndex(df, [i \in DOMAIN df.rows |-> m1[i] /\ m2[i]])

\* Variant: the second filter also restricted to the selected countries
YearFilter_Selected(df, yr) == Filter(df, countries, yr)

\* data[data['year'].dt.year.between(lo, hi)]
YearFilter(df, yr) ==
    BooleanIndex(df, [i \in DOMAIN df.rows |->
                        Between(DtYear(df.rows[i].year), yr[1], yr[2])])

(***************************************************************************)
(* calculate_delta                                                         *)
(***************************************************************************)
\* Variant: the length guard lets a one-row frame through, where iloc[-2]
\* raises IndexError
calculate_delta_ShortGuard(df, col) ==
    LET n == Len(df.rows)
    IN  IF n < 1 THEN
            [delta |-> Num(0), delta_percent |-> Num(0), reads |-> {},
             divisors |-> {}, raised |-> "none"]
        ELSE IF col \notin df.cols THEN
            [delta |-> NaN, delta_percent |-> NaN, reads |-> {},
             divisors |-> {}, raised |-> "KeyError"]
        ELSE IF n < 2 THEN
            [delta |-> NaN, delta_percent |-> NaN, reads |-> {n},
             divisors |-> {}, raised |-> "IndexError"]
        ELSE
            LET current_value == df.rows[n].cells[col]
                previous_value == df.rows[n - 1].cells[col]
                delta == RSub(current_value, previous_value)
            IN  [delta |-> delta,
                 delta_percent |->
                     IF previous_value # Num(0)
                     THEN RMul(RDiv(delta, previous_value), Num(100))
                     ELSE Num(0),
                 reads |-> {n, n - 1},
                 divisors |-> IF previous_value # Num(0) THEN {previous_value} ELSE {},
                 raised |-> "none"]

\* Variant: the previous value is divided by without the test for zero
calculate_delta_NoZeroTest(df, col) ==
    LET n == Len(df.rows)
    IN  IF n < 2 THEN
            [delta |-> Num(0), delta_percent |-> Num(0), reads |-> {},
             divisors |-> {}, raised |-> "none"]
        ELSE IF col \notin df.cols THEN
            [delta |-> NaN, delta_percent |-> NaN, reads |-> {},
             divisors |-> {}, raised |-> "KeyError"]
        ELSE
            LET current_value == df.rows[n].cells[col]
                previous_value == df.rows[n - 1].cells[col]
                delta == RSub(current_value, previous_value)
            IN  [delta |-> delta,
                 delta_percent |-> RMul(RDiv(delta, previous_value), Num(100)),
                 reads |-> {n, n - 1},
                 divisors |-> {previous_value},
                 raised |-> "none"]

\* The result records, besides the returned pair, the row positions read,
\* the divisors used and the exception raised, if any.
calculate_delta(df, col) ==
    LET n == Len(df.rows)
    IN  IF n < 2 THEN
            [delta |-> Num(0), delta_percent |-> Num(0), reads |-> {},
             divisors |-> {}, raised |-> "none"]
        ELSE IF col \notin df.cols THEN
            [delta |-> NaN, delta_percent |-> NaN, reads |-> {},
             divisors |-> {}, raised |-> "KeyError"]
        ELSE
            LET current_value == df.rows[n].cells[col]
                previous_value == df.rows[n - 1].cells[col]
                delta == RSub(current_value, previous_value)
            IN  [delta |-> delta,
                 delta_percent |->
                     IF previous_value # Num(0)
                     THEN RMul(RDiv(delta, previous_value), Num(100))
                     ELSE Num(0),
                 reads |-> {n, n - 1},
                 divisors |-> IF previous_value # Num(0) THEN {previous_value} ELSE {},
                 raised |-> "none"]

\* One pass of the loop body of the metrics section: the column mean, then
\* display_metric, which calls calculate_delta.  The exception it ends with.
MetricCard(df, m) ==
    IF m \notin df.cols THEN KeyError(m)
    ELSE IF calculate_delta(df, m).raised # "none" THEN KeyError(m)
    ELSE NoError

\* for col, metric in zip(metrics_cols, metrics): the first exception ends it
RECURSIVE MetricsLoop(_, _)
MetricsLoop(df, ms) ==
    IF ms = <<>> THEN NoError
    ELSE IF MetricCard(df, Head(ms)) # NoError THEN MetricCard(df, Head(ms))
    ELSE MetricsLoop(df, Tail(ms))

(***************************************************************************)
(* groupby(keys)[column].mean().reset_index()                              *)
(***************************************************************************)
CountryRank(c) == CHOOSE i \in DOMAIN CountryOrder : CountryOrder[i] = c

\* A group key: the country, then the values of the other key columns
RowKey(row, keys) ==
    [country |-> row.country,
     rest |-> [i \in 1 .. Len(keys) - 1 |-> row.cells[keys[i + 1]]]]

\* groupby drops the rows with a missing value in a key column (dropna=True)
KeyComplete(key) == \A i \in DOMAIN key.rest : ~IsNaN(key.rest[i])

GroupKeys(df, keys) ==
    {k \in {RowKey(df.rows[i], keys) : i \in DOMAIN df.rows} : KeyComplete(k)}

RECURSIVE SeqLess(_, _)
SeqLess(a, b) ==
    IF a = <<>> THEN FALSE
    ELSE IF RLess(Head(a), Head(b)) THEN TRUE
    ELSE IF RLess(Head(b), Head(a)) THEN FALSE
    ELSE SeqLess(Tail(a), Tail(b))

KeyLess(a, b) ==
    \/ CountryRank(a.country) < CountryRank(b.country)
    \/ a.country = b.country /\ SeqLess(a.rest, b.rest)

\* Group keys in sorted order (sort=True)
RECURSIVE SortKeys(_)
SortKeys(S) ==
    IF S = {} THEN <<>>
    ELSE LET least == CHOOSE k \in S : \A o \in S \ {k} : KeyLess(k, o)
         IN  <<least>> \o SortKeys(S \ {least})

RECURSIVE ColumnOf(_, _, _, _)
ColumnOf(rows, keys, key, col) ==
    IF rows = <<>> THEN <<>>
    ELSE IF RowKey(Head(rows), keys) = key
         THEN <<Head(rows).cells[col]>> \o ColumnOf(Tail(rows), keys, key, col)
         ELSE ColumnOf(Tail(rows), keys, key, col)

ValNotNaN(r) == ~IsNaN(r.val)

ValIsNaN(r) == IsNaN(r.val)

\* Variant: the groups whose mean is missing are dropped from the result
GroupMean_DropMissing(df, keys, col) ==
    LET ks == SortKeys(GroupKeys(df, keys))
    IN  SelectSeq([i \in DOMAIN ks |->
                     [key |-> ks[i], val |-> Mean(ColumnOf(df.rows, keys, ks[i], col))]],
                  ValNotNaN)

\* One output row per group key, with the mean of the column over the group
GroupMean(df, keys, col) ==
    LET ks == SortKeys(GroupKeys(df, keys))
    IN  [i \in DOMAIN ks |->
           [key |-> ks[i], val |-> Mean(ColumnOf(df.rows, keys, ks[i], col))]]

(***************************************************************************)
(* sort_values(by=..., ascending=False) and head(10)                       *)
(***************************************************************************)
TopN == 10

\* x placed behind every row that is not smaller than it
RECURSIVE InsertDescending(_, _)
InsertDescending(sorted, x) ==
    IF sorted = <<>> THEN <<x>>
    ELSE IF RLess(Head(sorted).val, x.val) THEN <<x>> \o sorted
    ELSE <<Head(sorted)>> \o InsertDescending(Tail(sorted), x)

RECURSIVE Descending(_)
Descending(rows) ==
    IF rows = <<>> THEN <<>>
    ELSE InsertDescending(Descending(SubSeq(rows, 1, Len(rows) - 1)), rows[Len(rows)])

\* Length of the leading run of rows with the same value
RECURSIVE RunLength(_)
RunLength(rows) ==
    IF Len(rows) < 2 \/ rows[1].val # rows[2].val THEN 1
    ELSE 1 + RunLength(Tail(rows))

Orderings(rows) ==
    {[i \in DOMAIN rows |-> rows[p[i]]] : p \in Permutations(DOMAIN rows)}

\* The default sort kind (quicksort) is not stable: rows with equal values
\* come out in any order
RECURSIVE TieOrders(_)
TieOrders(rows) ==
    IF rows = <<>> THEN {<<>>}
    ELSE LET k == RunLength(rows)
         IN  {a \o b : a \in Orderings(SubSeq(rows, 1, k)),
                       b \in TieOrders(SubSeq(rows, k + 1, Len(rows)))}

\* The possible results: values descending, NaN rows last in input order
sort_values(rows) ==
    {t \o SelectSeq(rows, ValIsNaN) :
        t \in TieOrders(Descending(SelectSeq(rows, ValNotNaN)))}

\* Variant: one row too many
head_Inclusive(rows, n) == SubSeq(rows, 1, IF Len(rows) < n + 1 THEN Len(rows) ELSE n + 1)

head(rows, n) == SubSeq(rows, 1, IF Len(rows) < n THEN Len(rows) ELSE n)

NoRows == [bound |-> FALSE, rows |-> <<>>]

BoundRows(r) == [bound |-> TRUE, rows |-> r]

(***************************************************************************)
(* The composite metric                                                    *)
(***************************************************************************)
\* Variant: any() in place of all()
IndicatorsPresent_Any(df) == \E i \in DOMAIN indicators : indicators[i] \in df.cols

\* all(indicator in filtered_data.columns for indicator in indicators)
IndicatorsPresent(df) == \A i \in DOMAIN indicators : indicators[i] \in df.cols

\* filtered_data[indicators].mean(axis=1)
RowComposite(row) == Mean([i \in DOMAIN indicators |-> row.cells[indicators[i]]])

\* filtered_data['composite_metric'] = ...
SetComposite(df) ==
    [cols |-> df.cols \cup {"composite_metric"},
     rows |-> [i \in DOMAIN df.rows |->
                 [df.rows[i] EXCEPT !.cells =
                     [c \in DOMAIN df.rows[i].cells \cup {"composite_metric"} |->
                        IF c = "composite_metric" THEN RowComposite(df.rows[i])
                        ELSE df.rows[i].cells[c]]]]]

\* Variant: filtered_data is a view of the table, and the new column lands
\* in the table too
DataAfterSetItem_View(table, filtered) ==
    [cols |-> table.cols \cup {"composite_metric"},
     rows |-> [i \in DOMAIN table.rows |->
                 IF \E k \in DOMAIN filtered.rows : filtered.rows[k].idx = table.rows[i].idx
                 THEN filtered.rows[CHOOSE k \in DOMAIN filtered.rows :
                                       filtered.rows[k].idx = table.rows[i].idx]
                 ELSE table.rows[i]]]

\* The table after the assignment: filtered_data is a copy made by the boolean
\* indexing, so the table is not written
DataAfterSetItem(table, filtered) == table

(***************************************************************************)
(* app.py: one rerun of the script, section by section                     *)
(***************************************************************************)
UniqueCountries(df) == {df.rows[i].country : i \in DOMAIN df.rows}

DataYears(df) == {DtYear(df.rows[i].year) : i \in DOMAIN df.rows}

\* The pairs a range slider returns: lo <= hi, both between the least and
\* the greatest year of the table
SliderRanges(df) ==
    {<<lo, hi>> \in Years \X Years :
        /\ lo <= hi
        /\ \E a \in DataYears(df) : a <= lo
        /\ \E b \in DataYears(df) : hi <= b}

MaxMetrics == 2

\* The lists the metrics multiselect returns (at least one metric chosen)
MetricChoices ==
    {ms \in UNION {[1 .. n -> Range(MetricOptions)] : n \in 1 .. MaxMetrics} :
        \A i, j \in DOMAIN ms : i # j => ms[i] # ms[j]}

Finished == {"idle", "done", "crashed"}

\* A rerun starts with an empty namespace
FreshNamespace ==
    /\ filtered_data' = Undefined
    /\ metric' = ""
    /\ heatmap_data' = NoRows
    /\ bubble_data' = NoRows
    /\ grouped' = NoRows
    /\ country_composite_scores' = NoRows
    /\ top_10_countries' = NoRows
    /\ error_shown' = FALSE

\* lines 33-41: load the table, the country multiselect and the year slider;
\* int() of the minimum year of an empty table raises ValueError
Rerun ==
    /\ pc \in Finished
    /\ LET table == load_data(cache, csv)
       IN  /\ cache' = Bound(table)
           /\ data' = Bound(table)
           /\ FreshNamespace
           /\ IF table.rows = <<>>
              THEN /\ countries' = {}
                   /\ years' = <<0, 0>>
                   /\ pc' = "crashed"
                   /\ err' = [type |-> "ValueError", key |-> ""]
              ELSE /\ countries' \in SUBSET UniqueCountries(table)
                   /\ years' \in SliderRanges(table)
                   /\ pc' = "filter"
                   /\ err' = NoError
    /\ UNCHANGED <<csv, column, summary>>

\* lines 48-50
FilterData ==
    /\ pc = "filter"
    /\ filtered_data' = Bound(Filter(data.df, countries, years))
    /\ pc' = "metrics"
    /\ UNCHANGED <<csv, cache, data, countries, years, metric, heatmap_data,
                   bubble_data, grouped, country_composite_scores,
                   top_10_countries, error_shown, err, column, summary>>

\* lines 42-46 and 57-95: the metrics chosen, one card per metric, the charts
MetricsSection ==
    /\ pc = "metrics"
    /\ err' \in {MetricsLoop(filtered_data.df, metrics) : metrics \in MetricChoices}
    /\ pc' = IF err' = NoError THEN "sidebar" ELSE "crashed"
    /\ UNCHANGED <<csv, cache, data, countries, years, metric, filtered_data,
                   heatmap_data, bubble_data, grouped, country_composite_scores,
                   top_10_countries, error_shown, column, summary>>

\* lines 99-110: the second year slider and the map metric, then the table
\* filtered by year
FilterByYear ==
    /\ pc = "sidebar"
    /\ years' \in SliderRanges(data.df)
    /\ metric' \in Range(MapMetricOptions)
    /\ filtered_data' = Bound(YearFilter(data.df, years'))
    /\ pc' = "heatmap"
    /\ UNCHANGED <<csv, cache, data, countries, heatmap_data, bubble_data,
                   grouped, country_composite_scores, top_10_countries,
                   error_shown, err, column, summary>>

\* lines 118-128
Heatmap ==
    /\ pc = "heatmap"
    /\ IF metric \in filtered_data.df.cols
       THEN /\ heatmap_data' =
                  BoundRows(GroupMean(filtered_data.df, <<"country">>, metric))
            /\ pc' = "composite"
            /\ err' = err
       ELSE /\ heatmap_data' = heatmap_data
            /\ pc' = "crashed"
            /\ err' = KeyError(metric)
    /\ UNCHANGED <<csv, cache, data, countries, years, metric, filtered_data,
                   bubble_data, grouped, country_composite_scores,
                   top_10_countries, error_shown, column, summary>>

\* lines 131-151
CompositeMetric ==
    /\ pc = "composite"
    /\ IF IndicatorsPresent(filtered_data.df)
       THEN IF \A i \in DOMAIN indicators : indicators[i] \in filtered_data.df.cols
            THEN /\ filtered_data' = Bound(SetComposite(filtered_data.df))
                 /\ data' = Bound(DataAfterSetItem(data.df, filtered_data'.df))
                 /\ grouped' = BoundRows(GroupMean(filtered_data'.df, <<"country">>,
                                                   "composite_metric"))
                 /\ \E sorted \in sort_values(grouped'.rows) :
                        country_composite_scores' = BoundRows(sorted)
                 /\ pc' = "top10"
                 /\ UNCHANGED <<error_shown, err>>
            ELSE \* filtered_data[indicators] raises KeyError for a column
                 \* that is not there
                 /\ pc' = "crashed"
                 /\ err' = KeyError("indicators")
                 /\ UNCHANGED <<filtered_data, data, grouped,
                                country_composite_scores, error_shown>>
       ELSE \* st.error(...)
            /\ error_shown' = TRUE
            /\ pc' = "top10"
            /\ UNCHANGED <<filtered_data, data, grouped, country_composite_scores, err>>
    /\ UNCHANGED <<csv, cache, countries, years, metric, heatmap_data,
                   bubble_data, top_10_countries, column, summary>>

\* lines 154-172: a name that was never assigned raises NameError
Top10 ==
    /\ pc = "top10"
    /\ IF country_composite_scores.bound
       THEN /\ top_10_countries' = BoundRows(head(country_composite_scores.rows, TopN))
            /\ pc' = "done"
            /\ err' = err
       ELSE /\ top_10_countries' = top_10_countries
            /\ pc' = "crashed"
            /\ err' = [type |-> "NameError", key |-> "country_composite_scores"]
    /\ UNCHANGED <<csv, cache, data, countries, years, metric, filtered_data,
                   heatmap_data, bubble_data, grouped, country_composite_scores,
                   error_shown, column, summary>>

\* Before the first run: the file is on disk, nothing is loaded or bound
Init ==
    /\ csv \in CsvFiles
    /\ cache = Undefined
    /\ data = Undefined
    /\ countries = {}
    /\ years = <<0, 0>>
    /\ metric = ""
    /\ filtered_data = Undefined
    /\ heatmap_data = NoRows
    /\ bubble_data = NoRows
    /\ grouped = NoRows
    /\ country_composite_scores = NoRows
    /\ top_10_countries = NoRows
    /\ error_shown = FALSE
    /\ pc = "idle"
    /\ err = NoError
    /\ column = ""
    /\ summary = NoSummary

Next ==
    \/ Rerun
    \/ FilterData
    \/ MetricsSection
    \/ FilterByYear
    \/ Heatmap
    \/ CompositeMetric
    \/ Top10

Spec == Init /\ [][Next]_vars

(***************************************************************************)
(* heatmap.py: one rerun of the script, section by section                 *)
(***************************************************************************)
\* lines 15-26: load the table, the year slider and the metric selectbox
HmRerun ==
    /\ pc \in Finished
    /\ LET table == load_data(cache, csv)
       IN  /\ cache' = Bound(table)
           /\ data' = Bound(table)
           /\ filtered_data' = Undefined
           /\ heatmap_data' = NoRows
           /\ bubble_data' = NoRows
           /\ IF table.rows = <<>>
              THEN /\ years' = <<0, 0>>
                   /\ metric' = ""
                   /\ pc' = "crashed"
                   /\ err' = [type |-> "ValueError", key |-> ""]
              ELSE /\ years' \in SliderRanges(table)
                   /\ metric' \in Range(MapMetricOptions)
                   /\ pc' = "hm_filter"
                   /\ err' = NoError
    /\ UNCHANGED <<csv, countries, grouped, country_composite_scores,
                   top_10_countries, error_shown, column, summary>>

\* line 29
HmFilter ==
    /\ pc = "hm_filter"
    /\ filtered_data' = Bound(YearFilter(data.df, years))
    /\ pc' = "hm_heatmap"
    /\ UNCHANGED <<csv, cache, data, countries, years, metric, heatmap_data,
                   bubble_data, grouped, country_composite_scores,
                   top_10_countries, error_shown, err, column, summary>>

\* lines 37-47
HmHeatmap ==
    /\ pc = "hm_heatmap"
    /\ IF metric \in filtered_data.df.cols
       THEN /\ heatmap_data' =
                  BoundRows(GroupMean(filtered_data.df, <<"country">>, metric))
            /\ pc' = "hm_bubble"
            /\ err' = err
       ELSE /\ heatmap_data' = heatmap_data
            /\ pc' = "crashed"
            /\ err' = KeyError(metric)
    /\ UNCHANGED <<csv, cache, data, countries, years, metric, filtered_data,
                   bubble_data, grouped, country_composite_scores,
                   top_10_countries, error_shown, column, summary>>

\* lines 51-63
HmBubble ==
    /\ pc = "hm_bubble"
    /\ bubble_data' =
           BoundRows(GroupMean(filtered_data.df,
                               <<"country", "latitude", "longitude">>, metric))
    /\ pc' = "done"
    /\ UNCHANGED <<csv, cache, data, countries, years, metric, filtered_data,
                   heatmap_data, grouped, country_composite_scores,
                   top_10_countries, error_shown, err, column, summary>>

NextHeatmap ==
    \/ HmRerun
    \/ HmFilter
    \/ HmHeatmap
    \/ HmBubble

SpecHeatmap == Init /\ [][NextHeatmap]_vars

(***************************************************************************)
(* calculate_delta applied to a frame and a column                         *)
(***************************************************************************)
DeltaValues == {NaN, Num(0), Num(2), Num(-2), Num(3)}

\* Frames of up to MaxLen rows whose only numeric column is col, or that
\* lack it
DeltaFrames(col) ==
    {[cols |-> {"country", "year", col},
      rows |-> [i \in DOMAIN vs |->
                  [idx |-> i - 1, country |-> "Peru",
                   year |-> ToDatetime(2010), cells |-> (col :> vs[i])]]] :
        vs \in UNION {[1 .. n -> DeltaValues] : n \in 0 .. MaxLen}}
    \cup
    {[cols |-> {"country", "year"},
      rows |-> [i \in 1 .. n |->
                  [idx |-> i - 1, country |-> "Peru",
                   year |-> ToDatetime(2010), cells |-> <<>>]]] :
        n \in 0 .. MaxLen}

InitDelta ==
    /\ column \in Range(MetricOptions)
    /\ filtered_data \in {Bound(df) : df \in DeltaFrames(column)}
    /\ summary = NoSummary
    /\ pc = "delta_call"
    /\ csv = NoFrame
    /\ cache = Undefined
    /\ data = Undefined
    /\ countries = {}
    /\ years = <<0, 0>>
    /\ metric = ""
    /\ heatmap_data = NoRows
    /\ bubble_data = NoRows
    /\ grouped = NoRows
    /\ country_composite_scores = NoRows
    /\ top_10_countries = NoRows
    /\ error_shown = FALSE
    /\ err = NoError

\* delta, delta_percent = calculate_delta(df, column)
CallDelta ==
    /\ pc = "delta_call"
    /\ summary' = calculate_delta(filtered_data.df, column)
    /\ pc' = "delta_done"
    /\ UNCHANGED <<csv, cache, data, countries, years, metric, filtered_data,
                   heatmap_data, bubble_data, grouped, country_composite_scores,
                   top_10_countries, error_shown, err, column>>

NextDelta == CallDelta

SpecDelta == InitDelta /\ [][NextDelta]_vars

(***************************************************************************)
(* sort_values and head applied to grouped scores                          *)
(***************************************************************************)
\* Group keys in sorted order, one per group
GroupNames ==
    <<"Chad", "Cuba", "Fiji", "Iran", "Iraq", "Laos", "Mali",
      "Oman", "Peru", "Togo", "Tuvalu", "Yemen", "Zambia">>

\* The score of the i-th group: i or i + 1, so that neighbours may tie and the
\* input is never in descending order; the first group may have no score
ScoresOf(i) == IF i = 1 THEN {Num(1), Num(2), NaN} ELSE {Num(i), Num(i + 1)}

\* The grouped scores of the first n groups
RECURSIVE ScoresUpTo(_)
ScoresUpTo(n) ==
    IF n = 0 THEN {<<>>}
    ELSE {Append(g, [key |-> [country |-> GroupNames[n], rest |-> <<>>], val |-> v]) :
            g \in ScoresUpTo(n - 1), v \in ScoresOf(n)}

GroupedScores == UNION {ScoresUpTo(n) : n \in 0 .. MaxGroups}

InitTopN ==
    /\ grouped \in {BoundRows(g) : g \in GroupedScores}
    /\ country_composite_scores = NoRows
    /\ top_10_countries = NoRows
    /\ pc = "sort"
    /\ csv = NoFrame
    /\ cache = Undefined
    /\ data = Undefined
    /\ countries = {}
    /\ years = <<0, 0>>
    /\ metric = ""
    /\ filtered_data = Undefined
    /\ heatmap_data = NoRows
    /\ bubble_data = NoRows
    /\ error_shown = FALSE
    /\ err = NoError
    /\ column = ""
    /\ summary = NoSummary

\* .sort_values(by='composite_metric', ascending=False)
SortScores ==
    /\ pc = "sort"
    /\ \E sorted \in sort_values(grouped.rows) :
           country_composite_scores' = BoundRows(sorted)
    /\ pc' = "head"
    /\ UNCHANGED <<csv, cache, data, countries, years, metric, filtered_data,
                   heatmap_data, bubble_data, grouped, top_10_countries,
                   error_shown, err, column, summary>>

\* top_10_countries = country_composite_scores.head(10)
HeadScores ==
    /\ pc = "head"
    /\ top_10_countries' = BoundRows(head(country_composite_scores.rows, TopN))
    /\ pc' = "topn_done"
    /\ UNCHANGED <<csv, cache, data, countries, years, metric, filtered_data,
                   heatmap_data, bubble_data, grouped, country_composite_scores,
                   error_shown, err, column, summary>>

NextTopN ==
    \/ SortScores
    \/ HeadScores

SpecTopN == InitTopN /\ [][NextTopN]_vars

(***************************************************************************)
(* Properties                                                              *)
(***************************************************************************)
\* The first view of app.py is current: after lines 48-50, before line 110
FirstView == pc \in {"metrics", "sidebar"}

\* Row i of the file matches the selection
Selected(i, sel, lo, hi) ==
    /\ csv.rows[i].country \in sel
    /\ lo <= csv.rows[i].year
    /\ csv.rows[i].year <= hi

\* C1: the view of the country-and-year filter holds exactly the table rows
\* whose country is in the selected set and whose calendar year lies in
\* [yearLow, yearHigh], both ends included, each row as it is in the table and
\* in the table's order.
InvC1 ==
    FirstView =>
        LET view == filtered_data.df.rows
            table == data.df.rows
        IN  /\ {view[k].idx + 1 : k \in DOMAIN view} =
                   {i \in DOMAIN csv.rows : Selected(i, countries, years[1], years[2])}
            /\ \A k \in DOMAIN view : view[k] = table[view[k].idx + 1]
            /\ \A j, k \in DOMAIN view : j < k => view[j].idx < view[k].idx

\* C1 witness: of two rows in the year range, the one whose country differs
\* from the selected one only by case is left out and the other is kept.
WitC1 ==
    /\ pc = "metrics"
    /\ countries = {"Peru"}
    /\ Len(csv.rows) = 2
    /\ csv.rows[1].country = "peru"
    /\ csv.rows[2].country = "Peru"
    /\ csv.rows[2].year = years[2]
    /\ years[1] < years[2]
    /\ Len(filtered_data.df.rows) = 1
    /\ filtered_data.df.rows[1].idx = 1

\* The metrics section ended the run with an exception
MetricsCrashed == pc = "crashed" /\ filtered_data.bound /\ metric = ""

InvC5 ==
    (error_shown /\ pc \in {"done", "crashed"}) =>
        /\ pc = "done"
        /\ err = NoError
        /\ ~top_10_countries.bound

\* An indicator column is missing from the file
IndicatorMissing == \E i \in DOMAIN indicators : indicators[i] \notin csv.cols

IndicatorCells(row) == [i \in DOMAIN indicators |-> row.cells[indicators[i]]]

\* v is the sum of the values of s
RECURSIVE IntSum(_)
IntSum(s) == IF s = <<>> THEN 0 ELSE Head(s)[1] + IntSum(Tail(s))

\* x is the mean of the values of s that are not missing, NaN if none is left
IsMeanOfPresent(x, s) ==
    LET t == SelectSeq(s, NotNaN)
    IN  IF t = <<>> THEN IsNaN(x)
        ELSE ~IsNaN(x) /\ x[1] * Len(t) = IntSum(t) * x[2]

\* x is the mean of all the values of s, NaN if one is missing
IsMeanOfAll(x, s) ==
    IF \E i \in DOMAIN s : IsNaN(s[i]) THEN IsNaN(x)
    ELSE ~IsNaN(x) /\ x[1] * Len(s) = IntSum(s) * x[2]

\* The composite section has run (lines 131-151)
AfterComposite == pc \in {"top10", "done"} \/ (pc = "crashed" /\ err.type = "NameError")

\* C6 (as claimed): the error is reported iff an indicator column is missing;
\* with all four present every row's score is the mean of its four values.
InvC6_AllFour ==
    AfterComposite =>
        /\ error_shown <=> IndicatorMissing
        /\ ~IndicatorMissing =>
              \A k \in DOMAIN filtered_data.df.rows :
                  IsMeanOfAll(filtered_data.df.rows[k].cells["composite_metric"],
                              IndicatorCells(filtered_data.df.rows[k]))

\* C6 (amended): the error is reported iff an indicator column is missing, and
\* then no score at all is computed; with all four present every row's score
\* is the mean of those of its four values that are not missing (NaN if all
\* are); the section never fails on a missing column.
InvC6 ==
    /\ err.key # "indicators"
    /\ AfterComposite =>
        /\ error_shown <=> IndicatorMissing
        /\ IndicatorMissing =>
              /\ "composite_metric" \notin filtered_data.df.cols
              /\ ~grouped.bound
              /\ ~country_composite_scores.bound
        /\ ~IndicatorMissing =>
              /\ "composite_metric" \in filtered_data.df.cols
              /\ \A k \in DOMAIN filtered_data.df.rows :
                    IsMeanOfPresent(filtered_data.df.rows[k].cells["composite_metric"],
                                    IndicatorCells(filtered_data.df.rows[k]))

\* C6 witness: all four columns are there and a row with a missing value has
\* got a score.
WitC6 ==
    /\ pc = "top10"
    /\ ~error_shown
    /\ \E k \in DOMAIN filtered_data.df.rows :
          /\ \E i \in DOMAIN indicators :
                IsNaN(filtered_data.df.rows[k].cells[indicators[i]])
          /\ ~IsNaN(filtered_data.df.rows[k].cells["composite_metric"])

ScoreCountries(r) == {r.rows[i].key.country : i \in DOMAIN r.rows}

\* C7 (as claimed): no country outside the selected ones is in the ranked
\* composite-score list or in the Top-10.
InvC7_SelectedOnly ==
    /\ country_composite_scores.bound =>
          ScoreCountries(country_composite_scores) \subseteq countries
    /\ top_10_countries.bound => ScoreCountries(top_10_countries) \subseteq countries

\* C7 (amended): the ranked list holds exactly the countries with a row in
\* the year range of the second slider, selected or not; the Top-10 holds
\* only such countries.
InvC7 ==
    LET InRange == {csv.rows[i].country : i \in
                       {j \in DOMAIN csv.rows :
                           years[1] <= csv.rows[j].year /\ csv.rows[j].year <= years[2]}}
    IN  /\ country_composite_scores.bound =>
              ScoreCountries(country_composite_scores) = InRange
        /\ top_10_countries.bound => ScoreCountries(top_10_countries) \subseteq InRange

\* C7 witness: the Top-10 holds a country that is not selected, and a row of
\* the table lies outside the year range.
WitC7 ==
    /\ pc = "done"
    /\ top_10_countries.bound
    /\ countries # {}
    /\ \E c \in ScoreCountries(top_10_countries) : c \notin countries
    /\ \E i \in DOMAIN csv.rows : csv.rows[i].year > years[2]

\* C10: the loaded table has the rows, the columns and the values of the file
\* at every point of every run, and the script's table is the memoized one.
InvC10 ==
    /\ cache.bound =>
          /\ cache.df.cols = csv.cols
          /\ Len(cache.df.rows) = Len(csv.rows)
          /\ \A i \in DOMAIN csv.rows :
                /\ cache.df.rows[i].idx = i - 1
                /\ cache.df.rows[i].country = csv.rows[i].country
                /\ cache.df.rows[i].year = [year |-> csv.rows[i].year, month |-> 1, day |-> 1]
                /\ cache.df.rows[i].cells = csv.rows[i].cells
    /\ data.bound => data.df = cache.df

\* C10 witness: a run has added the composite_metric column to a view that
\* holds every row of the table.
WitC10 ==
    /\ pc = "done"
    /\ "composite_metric" \in filtered_data.df.cols
    /\ Len(filtered_data.df.rows) = Len(data.df.rows)
    /\ Len(data.df.rows) = 2

\* The frame and the values calculate_delta was called with
DeltaRows == filtered_data.df.rows

LastValue == DeltaRows[Len(DeltaRows)].cells[column]

PreviousValue == DeltaRows[Len(DeltaRows) - 1].cells[column]

\* C3: for a frame of 0 rows or of 1 row and any column, calculate_delta
\* returns delta = 0 and delta_percent = 0, reads no row and raises nothing.
InvC3 ==
    (pc = "delta_done" /\ Len(DeltaRows) < 2) =>
        /\ summary.delta = Num(0)
        /\ summary.delta_percent = Num(0)
        /\ summary.reads = {}
        /\ summary.raised = "none"

\* C3 witness: calculate_delta has returned for a frame of exactly one row
\* that has the column.
WitC3 ==
    /\ pc = "delta_done"
    /\ Len(DeltaRows) = 1
    /\ column \in filtered_data.df.cols
    /\ DeltaRows[1].cells[column] = Num(3)

\* d is a - b
IsDifference(d, a, b) ==
    IF IsNaN(a) \/ IsNaN(b) THEN IsNaN(d)
    ELSE ~IsNaN(d) /\ d[1] * a[2] * b[2] = (a[1] * b[2] - b[1] * a[2]) * d[2]

\* q is d / b * 100, for b other than 0
IsPercentOf(q, d, b) ==
    IF IsNaN(d) \/ IsNaN(b) THEN IsNaN(q)
    ELSE ~IsNaN(q) /\ q[1] * b[1] * d[2] = 100 * d[1] * b[2] * q[2]

\* C4: for a frame of 2 rows or more that has the column, delta is the last
\* value minus the second-to-last, delta_percent is delta / second-to-last * 100,
\* and 0 when the second-to-last value is 0, whatever the last value is; no
\* division by zero takes place.
InvC4 ==
    (pc = "delta_done" /\ Len(DeltaRows) >= 2 /\ column \in filtered_data.df.cols) =>
        /\ summary.raised = "none"
        /\ IsDifference(summary.delta, LastValue, PreviousValue)
        /\ IF PreviousValue = Num(0)
           THEN summary.delta_percent = Num(0)
           ELSE IsPercentOf(summary.delta_percent, summary.delta, PreviousValue)
        /\ Num(0) \notin summary.divisors

\* C4 witness: the second-to-last value is 0 and the last one is not.
WitC4 ==
    /\ pc = "delta_done"
    /\ Len(DeltaRows) >= 2
    /\ column \in filtered_data.df.cols
    /\ PreviousValue = Num(0)
    /\ LastValue = Num(3)
    /\ summary.delta = Num(3)

\* Position of a group in the grouped input
GroupedPosition(r) == CHOOSE i \in DOMAIN grouped.rows : grouped.rows[i].key = r.key

\* Values in descending order, the rows without a value last
IsDescending(rows) ==
    \A i, j \in DOMAIN rows :
        i < j => /\ IsNaN(rows[i].val) => IsNaN(rows[j].val)
                 /\ ~IsNaN(rows[j].val) => ~RLess(rows[i].val, rows[j].val)

MinOf(a, b) == IF a < b THEN a ELSE b

\* The Top-N is the first rows of the sorted scores, which are the grouped
\* rows in descending order
IsTopOfSorted ==
    /\ Len(top_10_countries.rows) = MinOf(10, Len(grouped.rows))
    /\ Len(country_composite_scores.rows) = Len(grouped.rows)
    /\ Range(country_composite_scores.rows) = Range(grouped.rows)
    /\ IsDescending(country_composite_scores.rows)
    /\ \A i \in DOMAIN top_10_countries.rows :
          top_10_countries.rows[i] = country_composite_scores.rows[i]

\* C8 (as claimed): the Top-N is sorted by score in descending order, has at
\* most 10 entries and no more than there are groups, and groups with equal
\* scores keep the order they have in the grouped input.
InvC8_Stable ==
    pc = "topn_done" =>
        /\ IsTopOfSorted
        /\ \A i, j \in DOMAIN top_10_countries.rows :
              (i < j /\ top_10_countries.rows[i].val = top_10_countries.rows[j].val)
                  => GroupedPosition(top_10_countries.rows[i])
                         < GroupedPosition(top_10_countries.rows[j])

\* C8 (amended): the Top-N is sorted by score in descending order (groups
\* without a score last), has at most 10 entries and no more than there are
\* groups; the order of groups with equal scores is not determined.
InvC8 == pc = "topn_done" => IsTopOfSorted

\* C8 witness: eleven groups, ten of them in the Top-N, two of these with
\* equal scores in the reverse of their input order.
WitC8 ==
    /\ pc = "topn_done"
    /\ Len(grouped.rows) = 11
    /\ Len(top_10_countries.rows) = 10
    /\ \E i \in 1 .. 9 :
          /\ top_10_countries.rows[i].val = top_10_countries.rows[i + 1].val
          /\ GroupedPosition(top_10_countries.rows[i])
                 > GroupedPosition(top_10_countries.rows[i + 1])

ViewRows == filtered_data.df.rows

KeysOf(r) == {r.rows[i].key : i \in DOMAIN r.rows}

\* The bubble map's key of a view row
Triple(row) ==
    [country |-> row.country,
     rest |-> <<row.cells["latitude"], row.cells["longitude"]>>]

\* C9 (as claimed): the keys of each grouped result are exactly the distinct
\* keys of the view rows, each once, rows with a missing latitude, longitude
\* or metric value included.
InvC9_AllRows ==
    /\ heatmap_data.bound =>
          /\ KeysOf(heatmap_data) =
                 {[country |-> ViewRows[i].country, rest |-> <<>>] : i \in DOMAIN ViewRows}
          /\ Cardinality(KeysOf(heatmap_data)) = Len(heatmap_data.rows)
    /\ bubble_data.bound =>
          /\ KeysOf(bubble_data) = {Triple(ViewRows[i]) : i \in DOMAIN ViewRows}
          /\ Cardinality(KeysOf(bubble_data)) = Len(bubble_data.rows)

\* C9 (amended): the country keys are exactly the distinct countries of the
\* view, and the triple keys are exactly the distinct triples of the view
\* rows that have both a latitude and a longitude, each key once; a missing
\* metric value drops no key.
InvC9 ==
    /\ heatmap_data.bound =>
          /\ KeysOf(heatmap_data) =
                 {[country |-> ViewRows[i].country, rest |-> <<>>] : i \in DOMAIN ViewRows}
          /\ Cardinality(KeysOf(heatmap_data)) = Len(heatmap_data.rows)
    /\ bubble_data.bound =>
          /\ KeysOf(bubble_data) =
                 {Triple(ViewRows[i]) : i \in
                     {j \in DOMAIN ViewRows :
                         /\ ~IsNaN(ViewRows[j].cells["latitude"])
                         /\ ~IsNaN(ViewRows[j].cells["longitude"])}}
          /\ Cardinality(KeysOf(bubble_data)) = Len(bubble_data.rows)

\* C9 witness: the view has a row without a latitude and a row with one, and
\* a country whose metric values are all missing keeps its key.
WitC9 ==
    /\ pc = "done"
    /\ bubble_data.bound
    /\ Len(bubble_data.rows) = 1
    /\ Len(heatmap_data.rows) = 2
    /\ \E i \in DOMAIN ViewRows : IsNaN(ViewRows[i].cells["latitude"])
    /\ \E i \in DOMAIN heatmap_data.rows : IsNaN(heatmap_data.rows[i].val)

=============================================================================
